---- MODULE Spec2Model ----
(***************************************************************************)
(* StudyVault: the chunk / embed / index pipeline of code/rag              *)
(* (ChunkingIndexingAgent, YouTubeAgent, RAGOrchestrator) and the search   *)
(* of code/webapp/backend/vector_service.py, over one vector store.        *)
(*                                                                         *)
(* A request is one call of an entry point.  It advances one await point   *)
(* at a time; the embedding provider, the transcript provider, the PDF     *)
(* loader, the text splitter and the vector store are external: each call  *)
(* to one of them either answers or raises.                                *)
(***************************************************************************)
EXTENDS Integers, Sequences, FiniteSets, TLC

\* ---------------------------------------------------------------- config
\* code/rag/config.py
MAX_RETRIES == 3
RETRY_DELAY == 1
COLLECTION_NAME == "studyvault_documents"
CHUNK_SIZE == 400
CHUNK_OVERLAP == 40

\* ---------------------------------------------------------------- bounds
\* longest chunk list the splitter returns
MaxChunks == 2
\* identifiers generated in all: an indexing run begins while a full run fits
MaxPoints == 4

\* the longest text split under the small splitter configurations
MaxTextLen == 12

Procs == {1, 2}
Users == {1, 2}
\* the library items (rows of library_items): two of user 1, one of user 2
Items == {1, 2, 3}
Owner(d) == IF d = 3 THEN 2 ELSE 1
Type(d) == IF d = 2 THEN "youtube" ELSE "pdf"
PdfItems == {d \in Items : Type(d) = "pdf"}
YoutubeItems == {d \in Items : Type(d) = "youtube"}
\* search limits: a small one and the default of search_documents / search
Limits == {1, 5}
\* extracted texts: the empty text and a non-empty one
Texts == {"", "doc"}
\* URLs: one that extract_video_id parses and one it does not
\* a video with transcripts, a video whose owner disabled them, no video
Urls == {"https://youtu.be/vid", "https://youtu.be/off", "not-a-video-url"}

VARIABLES
    pc,          \* pc[p]: the await point request p is at
    req,         \* req[p]: the entry point called and its arguments
    loc,         \* loc[p]: the local variables of the running call
    trace,       \* trace[p]: what request p has done so far, in order
    outcome,     \* outcome[p]: what the entry point handed to its caller
    before,      \* before[p]: the store's records when request p began
    store,       \* the records (points) of the collection
    collections, \* names of the collections that exist in the store
    next_uuid    \* number of identifiers uuid4 has generated

vars == <<pc, req, loc, trace, outcome, before, store, collections, next_uuid>>

\* ---------------------------------------------------------------- helpers
Min(a, b) == IF a <= b THEN a ELSE b

Range(s) == {s[k] : k \in 1..Len(s)}

\* the k-th chunk of a text, and the vector the provider answers for a text
ChunkText(k) == k
Embedding(t) == 100 + t

UserName(u) == IF u = 1 THEN "Ann" ELSE "Bob"
Title(d) == CASE d = 1 -> "Notes" [] d = 2 -> "Talk" [] OTHER -> "Paper"
FilePath(d) == IF d = 1 THEN "uploads/1_notes.pdf" ELSE "uploads/2_paper.pdf"

TextLen(t) == IF t = "" THEN 0 ELSE 3

\* the locals of a call: `vectors` is the list embed_chunks builds, `embeddings` the
\* list process_pdf gets back; `attempt` is the language group being fetched
NoLocals ==
    [text |-> "", chunks |-> <<>>, vectors |-> <<>>, embeddings |-> <<>>,
     i |-> 0, retries |-> 0, attempt |-> 0, point_ids |-> <<>>, points |-> <<>>,
     hits |-> {}]

NoRequest == [kind |-> "none"]
NoOutcome == [tag |-> "none"]
Returned(v) == [tag |-> "return", value |-> v]
Raised(e) == [tag |-> "raise", error |-> e]

Idle(p) == pc[p] = "idle"

\* what an external call raises, by the library that raised it; the envelope's
\* `error` is str(e) of the exception caught
LoaderError == [type |-> "LoaderError"]
SplitterError == [type |-> "SplitterError"]
ProviderError == [type |-> "ProviderError"]
StoreError == [type |-> "StoreError"]
CollectionNotFound == [type |-> "StoreError", status |-> 404]
CollectionExists == [type |-> "StoreError", status |-> 409]
KeyError == [type |-> "KeyError"]

\* error_msg of process_youtube_upload when there is no transcript
TranscriptMissing == [message |-> "Failed to fetch YouTube transcript"]

\* trace events
Stage(s) == <<"stage", s>>
StoreCall(op) == <<"store", op>>
EmbedCall(i, ok) == <<"embed", i, ok>>
Sleep(i, d) == <<"sleep", i, d>>
FetchCall(a) == <<"fetch", a>>

Init ==
    /\ pc = [p \in Procs |-> "idle"]
    /\ req = [p \in Procs |-> NoRequest]
    /\ loc = [p \in Procs |-> NoLocals]
    /\ trace = [p \in Procs |-> <<>>]
    /\ outcome = [p \in Procs |-> NoOutcome]
    /\ before = [p \in Procs |-> {}]
    /\ store = {}
    /\ collections = {}
    /\ next_uuid = 0

\* the model's cap on uuid4's counter
RoomForRun == next_uuid + MaxChunks <= MaxPoints

\* a request begins: fresh locals, empty trace, no outcome yet
Begin(p, r, at, first, l) ==
    /\ Idle(p)
    /\ req' = [req EXCEPT ![p] = r]
    /\ pc' = [pc EXCEPT ![p] = at]
    /\ loc' = [loc EXCEPT ![p] = l]
    /\ trace' = [trace EXCEPT ![p] = first]
    /\ outcome' = [outcome EXCEPT ![p] = NoOutcome]
    /\ before' = [before EXCEPT ![p] = store]

\* the caller has the outcome: the call's frame is gone
return(p) ==
    /\ pc[p] = "done"
    /\ pc' = [pc EXCEPT ![p] = "idle"]
    /\ req' = [req EXCEPT ![p] = NoRequest]
    /\ loc' = [loc EXCEPT ![p] = NoLocals]
    /\ trace' = [trace EXCEPT ![p] = <<>>]
    /\ outcome' = [outcome EXCEPT ![p] = NoOutcome]
    /\ before' = [before EXCEPT ![p] = {}]
    /\ UNCHANGED <<store, collections, next_uuid>>

\* ---------------------------------------------------------------- stages
\* a slip: the indexing statement placed before the embedding statement
process_pdf_stages_index_early == <<"EXTRACT", "CHUNK", "INDEX", "EMBED">>

\* a slip: the embedding statement placed before the chunking statement
process_pdf_stages_swapped == <<"EXTRACT", "EMBED", "CHUNK", "INDEX">>

\* a slip: the pipeline returning after the embedding statement
process_pdf_stages_without_index == <<"EXTRACT", "CHUNK", "EMBED">>

\* process_pdf: the statements of its try block, in order
process_pdf_stages == <<"EXTRACT", "CHUNK", "EMBED", "INDEX">>

\* process_youtube_transcript: the statements of its try block, in order
process_youtube_transcript_stages == <<"CHUNK", "EMBED", "INDEX">>

\* the stages of a request, by the entry point called; a YouTube upload first
\* fetches the transcript, which is the text handed to process_youtube_transcript
StagesOf(kind) ==
    CASE kind = "pdf" -> process_pdf_stages
      [] kind = "youtube" -> <<"FETCH">> \o process_youtube_transcript_stages
      [] kind = "index" -> <<"INDEX">>
      [] OTHER -> <<>>

Position(seq, s) == CHOOSE k \in 1..Len(seq) : seq[k] = s

\* the stage that follows s, "RETURN" after the last one
After(kind, s) ==
    LET seq == StagesOf(kind)
        k == Position(seq, s)
    IN  IF k = Len(seq) THEN "RETURN" ELSE seq[k + 1]

\* the first await point of a stage
EntryPc(s) ==
    CASE s = "EXTRACT" -> "extract"
      [] s = "FETCH" -> "fetch"
      [] s = "CHUNK" -> "chunk"
      [] s = "EMBED" -> "embed_loop"
      [] s = "INDEX" -> "get_collections"

\* ---------------------------------------------------------------- handlers
ErrorEnvelope(e) == [status |-> "error", error |-> e]

\* process_pdf: except Exception -> error envelope
process_pdf_try(inner) ==
    IF inner.tag = "raise" THEN Returned(ErrorEnvelope(inner.error)) ELSE inner

\* process_youtube_transcript: except Exception -> error envelope
process_youtube_transcript_try(inner) ==
    IF inner.tag = "raise" THEN Returned(ErrorEnvelope(inner.error)) ELSE inner

\* RAGOrchestrator.process_pdf_upload: return result; except Exception -> error envelope
process_pdf_upload_try(inner) ==
    IF inner.tag = "raise" THEN Returned(ErrorEnvelope(inner.error)) ELSE inner

\* RAGOrchestrator.process_youtube_upload: return result; except Exception -> error envelope
process_youtube_upload_try(inner) ==
    IF inner.tag = "raise" THEN Returned(ErrorEnvelope(inner.error)) ELSE inner

\* a slip: no except clause
delete_document_no_try(inner) == inner

\* RAGOrchestrator.delete_document: except Exception -> error envelope
delete_document_try(inner) ==
    IF inner.tag = "raise" THEN Returned(ErrorEnvelope(inner.error)) ELSE inner

\* RAGOrchestrator.search_documents: except Exception -> error envelope with no results
search_documents_try(inner) ==
    IF inner.tag = "raise"
    THEN Returned([status |-> "error", error |-> inner.error, results |-> <<>>])
    ELSE inner

\* VectorService.search: except Exception -> []
VectorService_search_try(inner) ==
    IF inner.tag = "raise" THEN Returned(<<>>) ELSE inner

\* what the caller of the entry point gets, the body having ended with `inner`;
\* index_chunks, delete_by_library_item_id and VectorService.index_pdf re-raise
Deliver(kind, inner) ==
    CASE kind = "pdf" -> process_pdf_upload_try(process_pdf_try(inner))
      [] kind = "youtube" ->
            process_youtube_upload_try(process_youtube_transcript_try(inner))
      [] kind = "delete" -> delete_document_try(inner)
      [] kind = "search" -> search_documents_try(inner)
      [] kind = "vs_search" -> VectorService_search_try(inner)
      [] OTHER -> inner

IsSuccess(o) ==
    /\ o.tag = "return"
    /\ "status" \in DOMAIN o.value
    /\ o.value.status = "success"

\* the request ends: the handlers turn `inner` into the caller's outcome
Complete(p, inner, events, last) ==
    /\ pc' = [pc EXCEPT ![p] = "done"]
    /\ outcome' = [outcome EXCEPT ![p] = Deliver(req[p].kind, inner)]
    /\ trace' = [trace EXCEPT ![p] = @ \o events \o <<Stage(last)>>]

\* a slip: the error of an awaited call swallowed, the function returning what it has
Fail_swallowed(p, e, events) ==
    /\ Complete(p, Returned([status |-> "success", point_ids |-> loc[p].point_ids]),
                events, "FAILED")
    /\ UNCHANGED loc

\* an awaited call raises
Fail(p, e, events) ==
    /\ Complete(p, Raised(e), events, "FAILED")
    /\ UNCHANGED loc

\* the value the pipeline returns after its last stage
SuccessEnvelope(l) ==
    [status |-> "success", point_ids |-> l.point_ids,
     chunk_count |-> Len(l.chunks), character_count |-> TextLen(l.text)]

ReturnValue(kind, l) ==
    IF kind = "index" THEN l.point_ids ELSE SuccessEnvelope(l)

\* stage s ends normally with locals l: enter the next stage, or return
Advance(p, s, l, events) ==
    LET n == After(req[p].kind, s)
    IN  /\ loc' = [loc EXCEPT ![p] = l]
        /\ IF n = "RETURN"
           THEN Complete(p, Returned(ReturnValue(req[p].kind, l)), events, "DONE")
           ELSE /\ pc' = [pc EXCEPT ![p] = EntryPc(n)]
                /\ trace' = [trace EXCEPT ![p] = @ \o events \o <<Stage(n)>>]
                /\ UNCHANGED outcome

\* ---------------------------------------------------------------- PDF upload
UploadRequest(kind, d, source_type, url) ==
    [kind |-> kind, user_id |-> Owner(d), user_name |-> UserName(Owner(d)),
     title |-> Title(d), source_type |-> source_type, source_url |-> url,
     library_item_id |-> d]

\* RAGOrchestrator.process_pdf_upload -> ChunkingIndexingAgent.process_pdf
process_pdf_upload(p, d) ==
    /\ RoomForRun
    /\ Begin(p, UploadRequest("pdf", d, "pdf", FilePath(d)), "extract",
             <<Stage("EXTRACT")>>, NoLocals)
    /\ UNCHANGED <<store, collections, next_uuid>>

\* extract_text_from_pdf: the loader answers with the pages' text
extract_text_from_pdf_ok(p, t) ==
    /\ pc[p] = "extract"
    /\ Advance(p, "EXTRACT", [loc[p] EXCEPT !.text = t], <<>>)
    /\ UNCHANGED <<req, before, store, collections, next_uuid>>

\* extract_text_from_pdf: the loader raises, and the error is re-raised
extract_text_from_pdf_raise(p) ==
    /\ pc[p] = "extract"
    /\ Fail(p, LoaderError, <<>>)
    /\ UNCHANGED <<req, before, store, collections, next_uuid>>

\* chunk_text: the splitter answers; the empty text has no chunk
chunk_text_ok(p, n) ==
    /\ pc[p] = "chunk"
    /\ (n = 0) <=> (loc[p].text = "")
    /\ Advance(p, "CHUNK", [loc[p] EXCEPT !.chunks = [k \in 1..n |-> ChunkText(k)]], <<>>)
    /\ UNCHANGED <<req, before, store, collections, next_uuid>>

\* chunk_text: the splitter raises, and the error is re-raised
chunk_text_raise(p) ==
    /\ pc[p] = "chunk"
    /\ Fail(p, SplitterError, <<>>)
    /\ UNCHANGED <<req, before, store, collections, next_uuid>>

\* ---------------------------------------------------------------- embed_chunks
\* while retries < MAX_RETRIES
retry_loop(retries) == retries < MAX_RETRIES

\* a slip: the failure is not counted
count_failure_forgotten(retries) == retries

\* except: retries += 1
count_failure(retries) == retries + 1

\* a slip: the failure is never re-raised
sleep_and_retry_always(retries) == TRUE

\* a slip: gives up one attempt early
sleep_and_retry_early(retries) == retries < MAX_RETRIES - 1

\* if retries < MAX_RETRIES: sleep and go round the loop, else: raise
sleep_and_retry(retries) == retries < MAX_RETRIES

\* a slip: the same delay after every failure
backoff_constant(retries) == RETRY_DELAY

\* asyncio.sleep(RETRY_DELAY * retries)
backoff(retries) == RETRY_DELAY * retries

\* a slip: the vector put at the front of the list
prepend_embedding(embeddings, embedding) == <<embedding>> \o embeddings

\* embeddings.append(embedding)
append_embedding(embeddings, embedding) == Append(embeddings, embedding)

\* a slip: the loop body entered before the list is tested
more_chunks_do_while(i, chunks) == i = 0 \/ i < Len(chunks)

\* for i, chunk in enumerate(chunks): is there a chunk after the i done so far
more_chunks(i, chunks) == i < Len(chunks)

\* for i, chunk in enumerate(chunks): retries = 0; after the last chunk, return
embed_chunks_for(p) ==
    /\ pc[p] = "embed_loop"
    /\ IF more_chunks(loc[p].i, loc[p].chunks)
       THEN /\ loc' = [loc EXCEPT ![p].retries = 0]
            /\ pc' = [pc EXCEPT ![p] = "embed_while"]
            /\ UNCHANGED <<trace, outcome>>
       ELSE Advance(p, "EMBED", [loc[p] EXCEPT !.embeddings = loc[p].vectors], <<>>)
    /\ UNCHANGED <<req, before, store, collections, next_uuid>>

\* the while condition: call the provider, or leave the loop for the next chunk
embed_chunks_while(p) ==
    /\ pc[p] = "embed_while"
    /\ IF retry_loop(loc[p].retries)
       THEN /\ pc' = [pc EXCEPT ![p] = "aembed_query"]
            /\ UNCHANGED loc
       ELSE /\ pc' = [pc EXCEPT ![p] = "embed_loop"]
            /\ loc' = [loc EXCEPT ![p].i = @ + 1]
    /\ UNCHANGED <<req, trace, outcome, before, store, collections, next_uuid>>

\* aembed_query(chunk) answers: append the vector, break
aembed_query_ok(p) ==
    /\ pc[p] = "aembed_query"
    /\ LET i == loc[p].i + 1
       IN  /\ loc' = [loc EXCEPT ![p].vectors =
                          append_embedding(@, Embedding(loc[p].chunks[i])),
                      ![p].i = @ + 1]
           /\ trace' = [trace EXCEPT ![p] = Append(@, EmbedCall(i, TRUE))]
    /\ pc' = [pc EXCEPT ![p] = "embed_loop"]
    /\ UNCHANGED <<req, outcome, before, store, collections, next_uuid>>

\* aembed_query(chunk) raises: count it, then sleep or re-raise
aembed_query_raise(p) ==
    /\ pc[p] = "aembed_query"
    /\ LET i == loc[p].i + 1
           retries == count_failure(loc[p].retries)
       IN  IF sleep_and_retry(retries)
           THEN /\ loc' = [loc EXCEPT ![p].retries = retries]
                /\ trace' = [trace EXCEPT ![p] =
                       @ \o <<EmbedCall(i, FALSE), Sleep(i, backoff(retries))>>]
                /\ pc' = [pc EXCEPT ![p] = "sleep"]
                /\ UNCHANGED outcome
           ELSE Fail(p, ProviderError, <<EmbedCall(i, FALSE)>>)
    /\ UNCHANGED <<req, before, store, collections, next_uuid>>

\* asyncio.sleep returns
sleep_returns(p) ==
    /\ pc[p] = "sleep"
    /\ pc' = [pc EXCEPT ![p] = "embed_while"]
    /\ UNCHANGED <<req, loc, trace, outcome, before, store, collections, next_uuid>>

\* ---------------------------------------------------------------- vector store
\* a metadata filter: must = [FieldCondition(key, MatchValue(value))]
FieldCondition(key, value) == [key |-> key, value |-> value]

\* the store's test of a record against a filter
Matches(f, r) == f.key \in DOMAIN r.payload /\ r.payload[f.key] = f.value

\* a slip: only the first point of the batch is written
Upserted_first_only(records, points) ==
    IF points = <<>> THEN records
    ELSE {r \in records : points[1].id # r.id} \cup {points[1]}

\* the store's upsert: insert, or replace the record of the same id
Upserted(records, points) ==
    {r \in records : \A k \in 1..Len(points) : points[k].id # r.id} \cup Range(points)

\* the store's delete by filter
Deleted(records, f) == {r \in records : ~Matches(f, r)}

\* the store's search: at most `limit` of the records the filter admits (which of
\* them depends on the similarity scores, computed by the store)
SearchHits(records, f, limit) ==
    LET admitted == {r \in records : Matches(f, r)}
        n == Min(limit, Cardinality(admitted))
    IN  {h \in SUBSET admitted : Cardinality(h) = n}

\* a set of records as a list, by identifier
RECURSIVE Listed(_)
Listed(h) ==
    IF h = {} THEN <<>>
    ELSE LET r == CHOOSE x \in h : \A y \in h : x.id <= y.id
         IN  <<r>> \o Listed(h \ {r})

\* ---------------------------------------------------------------- index_chunks
\* for i, (chunk, embedding) in enumerate(zip(chunks, embeddings))
zip_length(chunks, embeddings) == Min(Len(chunks), Len(embeddings))

\* the payload of the record of chunk i (0-based); the timestamp is left out
Payload(r, chunks, i) ==
    [text |-> chunks[i + 1], user_id |-> r.user_id, user_name |-> r.user_name,
     title |-> r.title, source_type |-> r.source_type, source_url |-> r.source_url,
     library_item_id |-> r.library_item_id, chunk_index |-> i,
     total_chunks |-> Len(chunks)]

\* a slip: identifiers numbered from the start in every run
uuid4_restart(n, k) == k

\* point_id = str(uuid4()): the k-th identifier generated after `n` earlier ones
uuid4(n, k) == n + k

\* the loop that builds points and point_ids
BuildPoints(p, l) ==
    LET n == zip_length(l.chunks, l.embeddings)
    IN  [l EXCEPT
           !.point_ids = [k \in 1..n |-> uuid4(next_uuid, k)],
           !.points = [k \in 1..n |->
                          [id |-> uuid4(next_uuid, k), vector |-> l.embeddings[k],
                           payload |-> Payload(req[p], l.chunks, k - 1)]]]

\* a direct call of index_chunks, with any two lists
index_chunks(p, d, n, m) ==
    /\ RoomForRun
    /\ Begin(p, UploadRequest("index", d, "pdf", FilePath(d)), "get_collections",
             <<Stage("INDEX")>>,
             [NoLocals EXCEPT !.chunks = [k \in 1..n |-> ChunkText(k)],
                              !.embeddings = [k \in 1..m |-> Embedding(ChunkText(k))]])
    /\ UNCHANGED <<store, collections, next_uuid>>

\* ensure_collection: get_collections answers; the collection is there or not
get_collections_ok(p) ==
    /\ pc[p] = "get_collections"
    /\ trace' = [trace EXCEPT ![p] = Append(@, StoreCall("get_collections"))]
    /\ IF COLLECTION_NAME \in collections
       THEN /\ loc' = [loc EXCEPT ![p] = BuildPoints(p, loc[p])]
            /\ next_uuid' = next_uuid + Len(loc'[p].point_ids)
            /\ pc' = [pc EXCEPT ![p] = "upsert"]
       ELSE /\ pc' = [pc EXCEPT ![p] = "create_collection"]
            /\ UNCHANGED <<loc, next_uuid>>
    /\ UNCHANGED <<req, outcome, before, store, collections>>

\* ensure_collection: get_collections raises, and the error is re-raised
get_collections_raise(p) ==
    /\ pc[p] = "get_collections"
    /\ Fail(p, StoreError, <<StoreCall("get_collections")>>)
    /\ UNCHANGED <<req, before, store, collections, next_uuid>>

\* ensure_collection: create_collection answers, the collection is created
create_collection_ok(p) ==
    /\ pc[p] = "create_collection"
    /\ COLLECTION_NAME \notin collections
    /\ collections' = collections \cup {COLLECTION_NAME}
    /\ trace' = [trace EXCEPT ![p] = Append(@, StoreCall("create_collection"))]
    /\ loc' = [loc EXCEPT ![p] = BuildPoints(p, loc[p])]
    /\ next_uuid' = next_uuid + Len(loc'[p].point_ids)
    /\ pc' = [pc EXCEPT ![p] = "upsert"]
    /\ UNCHANGED <<req, outcome, before, store>>

\* ensure_collection: create_collection raises (the store refuses or is unreachable)
create_collection_raise(p) ==
    /\ pc[p] = "create_collection"
    /\ Fail(p, StoreError, <<StoreCall("create_collection")>>)
    /\ UNCHANGED <<req, before, store, collections, next_uuid>>

\* ensure_collection: create_collection for a collection that another caller has
\* created since get_collections answered: the store answers 409, which the
\* client raises, and the error is re-raised
create_collection_conflict(p) ==
    /\ pc[p] = "create_collection"
    /\ COLLECTION_NAME \in collections
    /\ Fail(p, CollectionExists, <<StoreCall("create_collection")>>)
    /\ UNCHANGED <<req, before, store, collections, next_uuid>>

\* upsert(points, wait=True) is acknowledged: return point_ids
upsert_ok(p) ==
    /\ pc[p] = "upsert"
    /\ COLLECTION_NAME \in collections
    /\ store' = Upserted(store, loc[p].points)
    /\ Advance(p, "INDEX", loc[p], <<StoreCall("upsert")>>)
    /\ UNCHANGED <<req, before, collections, next_uuid>>

\* upsert raises, nothing written, and the error is re-raised
upsert_raise(p) ==
    /\ pc[p] = "upsert"
    /\ Fail(p, StoreError, <<StoreCall("upsert")>>)
    /\ UNCHANGED <<req, before, store, collections, next_uuid>>

\* ---------------------------------------------------------------- delete
\* a slip: the item id matched against another field
library_item_filter_wrong_key(library_item_id) == FieldCondition("user_id", library_item_id)

\* the points_selector of delete_by_library_item_id
library_item_filter(library_item_id) == FieldCondition("library_item_id", library_item_id)

\* RAGOrchestrator.delete_document -> delete_by_library_item_id
delete_document(p, d) ==
    /\ Begin(p, [kind |-> "delete", library_item_id |-> d], "delete", <<>>, NoLocals)
    /\ UNCHANGED <<store, collections, next_uuid>>

\* delete(points_selector, wait=True) is acknowledged
delete_ok(p) ==
    /\ pc[p] = "delete"
    /\ COLLECTION_NAME \in collections
    /\ store' = Deleted(store, library_item_filter(req[p].library_item_id))
    /\ loc' = loc
    /\ Complete(p, Returned([status |-> "success"]), <<StoreCall("delete")>>, "DONE")
    /\ UNCHANGED <<req, before, collections, next_uuid>>

\* delete raises, nothing removed, and the error is re-raised
delete_raise(p) ==
    /\ pc[p] = "delete"
    /\ Fail(p, StoreError, <<StoreCall("delete")>>)
    /\ UNCHANGED <<req, before, store, collections, next_uuid>>

\* delete on a store without the collection: the store answers 404, which the
\* client raises; delete_by_library_item_id does not call ensure_collection
delete_collection_missing(p) ==
    /\ pc[p] = "delete"
    /\ COLLECTION_NAME \notin collections
    /\ Fail(p, CollectionNotFound, <<StoreCall("delete")>>)
    /\ UNCHANGED <<req, before, store, collections, next_uuid>>

\* ---------------------------------------------------------------- search
\* a slip: the user id matched against another field
user_filter_wrong_key(user_id) == FieldCondition("library_item_id", user_id)

\* the query_filter of search_documents
user_filter(user_id) == FieldCondition("user_id", user_id)

\* payload.get(key): None when the key is missing
Get(payload, key) == IF key \in DOMAIN payload THEN <<payload[key]>> ELSE <<>>

\* one entry of search_documents' results (the score is left out)
SearchResult(r) ==
    [text |-> Get(r.payload, "text"), title |-> Get(r.payload, "title"),
     source_type |-> Get(r.payload, "source_type"),
     chunk_index |-> Get(r.payload, "chunk_index")]

\* RAGOrchestrator.search_documents
search_documents(p, u, limit) ==
    /\ Begin(p, [kind |-> "search", user_id |-> u, limit |-> limit], "embed_query", <<>>,
             NoLocals)
    /\ UNCHANGED <<store, collections, next_uuid>>

\* aembed_query(query) answers
embed_query_ok(p) ==
    /\ pc[p] = "embed_query"
    /\ pc' = [pc EXCEPT ![p] = "search"]
    /\ UNCHANGED <<req, loc, trace, outcome, before, store, collections, next_uuid>>

\* aembed_query(query) raises
embed_query_raise(p) ==
    /\ pc[p] = "embed_query"
    /\ Fail(p, ProviderError, <<>>)
    /\ UNCHANGED <<req, before, store, collections, next_uuid>>

\* search(query_vector, query_filter, limit) answers with the hits
search_ok(p) ==
    /\ pc[p] = "search"
    /\ COLLECTION_NAME \in collections
    /\ \E hits \in SearchHits(store, user_filter(req[p].user_id), req[p].limit) :
          LET results == [k \in 1..Cardinality(hits) |-> SearchResult(Listed(hits)[k])]
          IN  /\ loc' = [loc EXCEPT ![p].hits = hits]
              /\ Complete(p, Returned([status |-> "success", results |-> results,
                                       count |-> Len(results)]),
                          <<StoreCall("search")>>, "DONE")
    /\ UNCHANGED <<req, before, store, collections, next_uuid>>

\* search raises
search_raise(p) ==
    /\ pc[p] = "search"
    /\ Fail(p, StoreError, <<StoreCall("search")>>)
    /\ UNCHANGED <<req, before, store, collections, next_uuid>>

\* ---------------------------------------------------------------- YouTube upload
\* a slip: the last language group left out
language_attempts_without_german ==
    << <<"en">>, <<"en-US">>, <<"en-GB">>, <<"es", "en">>, <<"fr", "en">> >>

\* a slip: the English variants tried after the other languages
language_attempts_english_last ==
    << <<"es", "en">>, <<"fr", "en">>, <<"de", "en">>, <<"en">>, <<"en-US">>, <<"en-GB">> >>

\* fetch_transcript_with_fallback: the language groups, in the order tried
language_attempts ==
    << <<"en">>, <<"en-US">>, <<"en-GB">>, <<"es", "en">>, <<"fr", "en">>, <<"de", "en">> >>


\* extract_video_id: the identifier in the URL, or None
extract_video_id(url) ==
    CASE url = "https://youtu.be/vid" -> <<"vid">>
      [] url = "https://youtu.be/off" -> <<"off">>
      [] OTHER -> <<>>

\* the provider's answer for a video whose transcripts are disabled is TranscriptsDisabled
TranscriptsOff(url) == extract_video_id(url) = <<"off">>

\* a slip: any answer of the provider taken for a transcript
truthy_always(transcript) == TRUE

\* `if transcript:` an absent or empty transcript is false
truthy(transcript) == transcript # ""

\* RAGOrchestrator.process_youtube_upload -> fetch_transcript_with_fallback
process_youtube_upload(p, d, url) ==
    /\ RoomForRun
    /\ Begin(p, UploadRequest("youtube", d, "youtube", url), "fetch", <<Stage("FETCH")>>,
             [NoLocals EXCEPT !.attempt = 1])
    /\ UNCHANGED <<store, collections, next_uuid>>

\* a slip: the failure of an attempt leaves fetch_transcript_with_fallback
fetch_next_abort(p, events) == Fail(p, ProviderError, events)

\* fetch_transcript returned None or "": the next group, or None after the last one,
\* and then process_youtube_upload returns its error envelope
fetch_next(p, events) ==
    IF loc[p].attempt < Len(language_attempts)
    THEN /\ loc' = [loc EXCEPT ![p].attempt = @ + 1]
         /\ trace' = [trace EXCEPT ![p] = @ \o events]
         /\ UNCHANGED <<pc, outcome>>
    ELSE /\ Complete(p, Returned(ErrorEnvelope(TranscriptMissing)),
                     events, "FAILED")
         /\ UNCHANGED loc

\* a slip: the provider asked before the video id is looked at
fetch_transcript_no_video_id_asked(p) ==
    /\ pc[p] = "fetch"
    /\ extract_video_id(req[p].source_url) = <<>>
    /\ fetch_next(p, <<FetchCall(loc[p].attempt)>>)
    /\ UNCHANGED <<req, before, store, collections, next_uuid>>

\* fetch_transcript: no video id in the URL, return None before any provider call
fetch_transcript_no_video_id(p) ==
    /\ pc[p] = "fetch"
    /\ extract_video_id(req[p].source_url) = <<>>
    /\ fetch_next(p, <<>>)
    /\ UNCHANGED <<req, before, store, collections, next_uuid>>

\* fetch_transcript: get_transcript answers, the segments are joined
fetch_transcript_ok(p, transcript) ==
    /\ pc[p] = "fetch"
    /\ extract_video_id(req[p].source_url) # <<>>
    /\ ~TranscriptsOff(req[p].source_url)
    /\ IF truthy(transcript)
       THEN Advance(p, "FETCH", [loc[p] EXCEPT !.text = transcript],
                    <<FetchCall(loc[p].attempt)>>)
       ELSE fetch_next(p, <<FetchCall(loc[p].attempt)>>)
    /\ UNCHANGED <<req, before, store, collections, next_uuid>>

\* fetch_transcript: except TranscriptsDisabled -> None
fetch_transcript_disabled(p) ==
    /\ pc[p] = "fetch"
    /\ extract_video_id(req[p].source_url) # <<>>
    /\ fetch_next(p, <<FetchCall(loc[p].attempt)>>)
    /\ UNCHANGED <<req, before, store, collections, next_uuid>>

\* fetch_transcript: except NoTranscriptFound -> None
fetch_transcript_not_found(p) ==
    /\ pc[p] = "fetch"
    /\ extract_video_id(req[p].source_url) # <<>>
    /\ ~TranscriptsOff(req[p].source_url)
    /\ fetch_next(p, <<FetchCall(loc[p].attempt)>>)
    /\ UNCHANGED <<req, before, store, collections, next_uuid>>

\* fetch_transcript: except Exception -> None
fetch_transcript_error(p) ==
    /\ pc[p] = "fetch"
    /\ extract_video_id(req[p].source_url) # <<>>
    /\ fetch_next(p, <<FetchCall(loc[p].attempt)>>)
    /\ UNCHANGED <<req, before, store, collections, next_uuid>>

\* ---------------------------------------------------------------- VectorService
\* the payload index_pdf writes for chunk i (0-based)
VectorService_payload(d, chunks, i) ==
    [text |-> chunks[i + 1], user_id |-> Owner(d), title |-> Title(d), type |-> "pdf",
     file_path |-> FilePath(d), chunk_index |-> i]

\* VectorService.__init__ -> _ensure_collection: create the collection if missing
VectorService_ensure_collection ==
    /\ COLLECTION_NAME \notin collections
    /\ collections' = collections \cup {COLLECTION_NAME}
    /\ UNCHANGED <<pc, req, loc, trace, outcome, before, store, next_uuid>>

\* VectorService.index_pdf: read, split, embed each chunk, upsert; any error is re-raised
VectorService_index_pdf(p, d, n) ==
    /\ RoomForRun
    /\ Begin(p, [kind |-> "vs_index", user_id |-> Owner(d), title |-> Title(d)], "done",
             <<>>, NoLocals)
    /\ LET chunks == [k \in 1..n |-> ChunkText(k)]
           points == [k \in 1..n |->
                         [id |-> uuid4(next_uuid, k), vector |-> Embedding(chunks[k]),
                          payload |-> VectorService_payload(d, chunks, k - 1)]]
       IN  \/ /\ COLLECTION_NAME \in collections
              /\ store' = Upserted(store, points)
              /\ next_uuid' = next_uuid + n
           \/ UNCHANGED <<store, next_uuid>>
    /\ UNCHANGED collections

\* the query_filter of VectorService.search
VectorService_user_filter(user_id) == FieldCondition("user_id", user_id)

\* one entry of VectorService.search's result (the score is left out)
VectorService_result(r) ==
    [text |-> r.payload["text"], title |-> r.payload["title"], type |-> r.payload["type"]]

\* VectorService.search; a hit without one of the keys read raises KeyError
VectorService_search(p, u, limit) ==
    /\ Idle(p)
    /\ req' = [req EXCEPT ![p] = [kind |-> "vs_search", user_id |-> u, limit |-> limit]]
    /\ before' = [before EXCEPT ![p] = store]
    /\ trace' = [trace EXCEPT ![p] = <<>>]
    /\ pc' = [pc EXCEPT ![p] = "done"]
    /\ \/ /\ COLLECTION_NAME \in collections
          /\ \E hits \in SearchHits(store, VectorService_user_filter(u), limit) :
                /\ loc' = [loc EXCEPT ![p] = [NoLocals EXCEPT !.hits = hits]]
                /\ outcome' = [outcome EXCEPT ![p] =
                      VectorService_search_try(
                          IF \A h \in hits : {"text", "title", "type"} \subseteq DOMAIN h.payload
                          THEN Returned([k \in 1..Cardinality(hits) |->
                                            VectorService_result(Listed(hits)[k])])
                          ELSE Raised(KeyError))]
       \/ /\ loc' = [loc EXCEPT ![p] = NoLocals]
          /\ outcome' = [outcome EXCEPT ![p] = VectorService_search_try(Raised(StoreError))]
    /\ UNCHANGED <<store, collections, next_uuid>>

\* a slip: the placeholder filled in, removing the item's records
VectorService_delete_by_file(records, item_id) ==
    {r \in records :
        ~("file_path" \in DOMAIN r.payload /\ r.payload.file_path = FilePath(item_id))}

\* the body of VectorService.delete_document: `pass`, no call to the store
VectorService_delete(records, item_id) == records

\* VectorService.delete_document, as called by delete_library_item
VectorService_delete_document(p, d) ==
    /\ Idle(p)
    /\ req' = [req EXCEPT ![p] = [kind |-> "vs_delete", item_id |-> d]]
    /\ before' = [before EXCEPT ![p] = store]
    /\ trace' = [trace EXCEPT ![p] = <<>>]
    /\ loc' = [loc EXCEPT ![p] = NoLocals]
    /\ pc' = [pc EXCEPT ![p] = "done"]
    /\ store' = VectorService_delete(store, d)
    /\ outcome' = [outcome EXCEPT ![p] = Returned(<<>>)]
    /\ UNCHANGED <<collections, next_uuid>>

\* ---------------------------------------------------------------- specification
Step(p) ==
    \/ \E d \in PdfItems : process_pdf_upload(p, d)
    \/ \E t \in Texts : extract_text_from_pdf_ok(p, t)
    \/ extract_text_from_pdf_raise(p)
    \/ \E n \in 0..MaxChunks : chunk_text_ok(p, n)
    \/ chunk_text_raise(p)
    \/ embed_chunks_for(p)
    \/ embed_chunks_while(p)
    \/ aembed_query_ok(p)
    \/ aembed_query_raise(p)
    \/ sleep_returns(p)
    \/ \E n, m \in 0..MaxChunks : index_chunks(p, 1, n, m)
    \/ get_collections_ok(p)
    \/ get_collections_raise(p)
    \/ create_collection_ok(p)
    \/ create_collection_raise(p)
    \/ create_collection_conflict(p)
    \/ upsert_ok(p)
    \/ upsert_raise(p)
    \/ \E d \in Items : delete_document(p, d)
    \/ delete_ok(p)
    \/ delete_raise(p)
    \/ delete_collection_missing(p)
    \/ \E u \in Users, limit \in Limits : search_documents(p, u, limit)
    \/ embed_query_ok(p)
    \/ embed_query_raise(p)
    \/ search_ok(p)
    \/ search_raise(p)
    \/ \E d \in YoutubeItems, url \in Urls : process_youtube_upload(p, d, url)
    \/ fetch_transcript_no_video_id(p)
    \/ \E t \in Texts : fetch_transcript_ok(p, t)
    \/ fetch_transcript_disabled(p)
    \/ fetch_transcript_not_found(p)
    \/ fetch_transcript_error(p)
    \/ \E d \in PdfItems, n \in 0..MaxChunks : VectorService_index_pdf(p, d, n)
    \/ \E u \in Users, limit \in Limits : VectorService_search(p, u, limit)
    \/ \E d \in Items : VectorService_delete_document(p, d)
    \/ return(p)

\* requests served one at a time
Next == Step(1) \/ VectorService_ensure_collection

Spec == Init /\ [][Next]_vars

\* the steps of the upload pipelines
UploadStep(p) ==
    \/ \E d \in PdfItems : process_pdf_upload(p, d)
    \/ \E t \in Texts : extract_text_from_pdf_ok(p, t)
    \/ extract_text_from_pdf_raise(p)
    \/ \E n \in 0..MaxChunks : chunk_text_ok(p, n)
    \/ chunk_text_raise(p)
    \/ embed_chunks_for(p)
    \/ embed_chunks_while(p)
    \/ aembed_query_ok(p)
    \/ aembed_query_raise(p)
    \/ sleep_returns(p)
    \/ get_collections_ok(p)
    \/ get_collections_raise(p)
    \/ create_collection_ok(p)
    \/ create_collection_raise(p)
    \/ create_collection_conflict(p)
    \/ upsert_ok(p)
    \/ upsert_raise(p)
    \/ \E d \in YoutubeItems, url \in Urls : process_youtube_upload(p, d, url)
    \/ fetch_transcript_no_video_id(p)
    \/ \E t \in Texts : fetch_transcript_ok(p, t)
    \/ fetch_transcript_disabled(p)
    \/ fetch_transcript_not_found(p)
    \/ fetch_transcript_error(p)
    \/ return(p)

\* uploads served one at a time, beside the web backend's VectorService
NextUploads == UploadStep(1) \/ VectorService_ensure_collection

\* the event loop runs a task that is ready, and every external call is answered
\* (with a result or an error): a request that can take a step takes one
SpecLive == Init /\ [][NextUploads]_vars /\ WF_vars(NextUploads)

\* ---------------------------------------------------------------- text splitter
\* RecursiveCharacterTextSplitter(chunk_size, chunk_overlap, SEPARATORS).split_text
\* for a text that holds none of "\n\n", "\n", " ": the last separator, "", splits
\* the text into its characters, which are merged into chunks.  A text is the
\* sequence of its characters; character k of a text is written k.

Text(n) == [k \in 1..n |-> k]

\* a slip: nothing kept of the chunk just emitted
shrink_all(total, len, chunk_size, chunk_overlap) == total > 0

\* the while condition of the merge: characters are dropped from the front of the
\* current chunk while it is longer than the overlap, or has no room for the split
shrink(total, len, chunk_size, chunk_overlap) ==
    total > chunk_overlap \/ (total + len > chunk_size /\ total > 0)

\* the while loop: what is left of the current chunk
RECURSIVE keep_overlap(_, _, _, _)
keep_overlap(current_doc, len, chunk_size, chunk_overlap) ==
    IF shrink(Len(current_doc), len, chunk_size, chunk_overlap)
    THEN keep_overlap(Tail(current_doc), len, chunk_size, chunk_overlap)
    ELSE current_doc

\* the merge of the one-character splits from the k-th on, `current_doc` being the
\* chunk under construction and `docs` the chunks emitted; an empty chunk is not emitted
RECURSIVE merge_splits(_, _, _, _, _, _)
merge_splits(splits, k, current_doc, docs, chunk_size, chunk_overlap) ==
    IF k > Len(splits)
    THEN IF current_doc = <<>> THEN docs ELSE Append(docs, current_doc)
    ELSE IF Len(current_doc) + 1 > chunk_size /\ current_doc # <<>>
         THEN merge_splits(splits, k + 1,
                           Append(keep_overlap(current_doc, 1, chunk_size, chunk_overlap),
                                  splits[k]),
                           Append(docs, current_doc), chunk_size, chunk_overlap)
         ELSE merge_splits(splits, k + 1, Append(current_doc, splits[k]), docs,
                           chunk_size, chunk_overlap)

split_text(text, chunk_size, chunk_overlap) ==
    merge_splits(text, 1, <<>>, <<>>, chunk_size, chunk_overlap)

\* the size and overlap of the configured splitter, in units of 10 characters
ScaledConfig == <<CHUNK_SIZE \div 10, CHUNK_OVERLAP \div 10>>

\* the configurations split under: the configured one, scaled, and small ones
SplitterConfigs == {ScaledConfig, <<3, 0>>, <<4, 1>>, <<5, 2>>}

\* the lengths of the texts split under a configuration
TextLengths(chunk_size) ==
    IF chunk_size = ScaledConfig[1]
    THEN {0, 1, chunk_size, chunk_size + 1, 1000 \div 10}
    ELSE 0..MaxTextLen

\* chunk_text(text) on an agent whose splitter has the given configuration
chunk_text(p, n, chunk_size, chunk_overlap) ==
    /\ Idle(p)
    /\ req' = [req EXCEPT ![p] = [kind |-> "chunk_text", text |-> Text(n),
                                  chunk_size |-> chunk_size,
                                  chunk_overlap |-> chunk_overlap]]
    /\ loc' = [loc EXCEPT ![p] =
                  [NoLocals EXCEPT !.chunks = split_text(Text(n), chunk_size, chunk_overlap)]]
    /\ outcome' = [outcome EXCEPT ![p] = Returned(loc'[p].chunks)]
    /\ pc' = [pc EXCEPT ![p] = "done"]
    /\ UNCHANGED <<trace, before, store, collections, next_uuid>>

NextSplit ==
    \E p \in Procs :
        \/ \E c \in SplitterConfigs : \E n \in TextLengths(c[1]) : chunk_text(p, n, c[1], c[2])
        \/ return(p)

SpecSplit == Init /\ [][NextSplit]_vars

\* index_chunks called by several tasks of one event loop: each await is a point
\* where another task may run
IndexStep(p) ==
    \/ \E n, m \in 0..MaxChunks : index_chunks(p, 1, n, m)
    \/ get_collections_ok(p)
    \/ get_collections_raise(p)
    \/ create_collection_ok(p)
    \/ create_collection_raise(p)
    \/ create_collection_conflict(p)
    \/ upsert_ok(p)
    \/ upsert_raise(p)
    \/ return(p)

NextConcurrent == \E p \in Procs : IndexStep(p)

SpecConcurrent == Init /\ [][NextConcurrent]_vars

\* ---------------------------------------------------------------- reading a trace
UploadKinds == {"pdf", "youtube"}
Done(p) == pc[p] = "done"

\* the stages request p entered, in order, with its DONE or FAILED
Stages(p) ==
    LET ev == SelectSeq(trace[p], LAMBDA e : e[1] = "stage")
    IN  [k \in 1..Len(ev) |-> ev[k][2]]

\* the store operations request p issued, in order
StoreCalls(p) ==
    LET ev == SelectSeq(trace[p], LAMBDA e : e[1] = "store")
    IN  [k \in 1..Len(ev) |-> ev[k][2]]

\* the answers (TRUE) and errors (FALSE) of the provider calls for chunk i, in order
CallsFor(p, i) ==
    LET ev == SelectSeq(trace[p], LAMBDA e : e[1] = "embed" /\ e[2] = i)
    IN  [k \in 1..Len(ev) |-> ev[k][3]]

IsPrefix(a, b) == Len(a) <= Len(b) /\ \A k \in 1..Len(a) : a[k] = b[k]

\* the error envelope: status "error" with a message
IsErrorEnvelope(o) ==
    /\ o.tag = "return"
    /\ o.value.status = "error"
    /\ "error" \in DOMAIN o.value

\* every attempt for some chunk failed, MAX_RETRIES of them
Exhausted(p) ==
    \E i \in 1..Len(loc[p].chunks) :
        /\ Len(CallsFor(p, i)) >= MAX_RETRIES
        /\ \A k \in 1..Len(CallsFor(p, i)) : ~CallsFor(p, i)[k]

RecordsOf(records, d) ==
    {r \in records : "library_item_id" \in DOMAIN r.payload /\ r.payload.library_item_id = d}

\* ---------------------------------------------------------------- claims
\* C1: when the provider fails every attempt for some chunk of an upload, the
\* pipeline returns the error envelope, has issued no upsert, and the records of
\* that document are those the index held before the call.
RetryExhaustionLeavesIndex ==
    \A p \in Procs :
        (Done(p) /\ req[p].kind \in UploadKinds /\ Exhausted(p)) =>
            /\ IsErrorEnvelope(outcome[p])
            /\ "upsert" \notin Range(StoreCalls(p))
            /\ RecordsOf(store, req[p].library_item_id)
                  = RecordsOf(before[p], req[p].library_item_id)
            /\ store = before[p]

\* C1 witness: a second run of an indexed document gives up on its second chunk
RetryExhaustionSeen ==
    \E p \in Procs :
        /\ Done(p) /\ req[p].kind = "pdf" /\ Exhausted(p)
        /\ CallsFor(p, 1) = <<TRUE>>
        /\ RecordsOf(before[p], req[p].library_item_id) # {}

\* C2: every orchestrator entry point returns an envelope whose status is "success"
\* or "error" (with a message) and never raises to its caller.
OrchestratorKinds == {"pdf", "youtube", "delete", "search"}

EnvelopeAlways ==
    \A p \in Procs :
        req[p].kind \in OrchestratorKinds =>
            /\ outcome[p].tag # "raise"
            /\ Done(p) =>
                  /\ outcome[p].tag = "return"
                  /\ outcome[p].value.status \in {"success", "error"}
                  /\ outcome[p].value.status = "error" => "error" \in DOMAIN outcome[p].value

\* C2 witness: the store refuses a delete and delete_document returns the error envelope
StoreFailureEnveloped ==
    \E p \in Procs :
        /\ Done(p) /\ req[p].kind = "delete"
        /\ StoreCalls(p) = <<"delete">>
        /\ IsErrorEnvelope(outcome[p])
        /\ outcome[p].value.error = StoreError

\* C3: the stages an upload enters are a prefix of EXTRACT, CHUNK, EMBED, INDEX, each
\* once and in that order, then DONE after all four or FAILED after the stage that
\* failed, and nothing after that.  A YouTube upload obtains its text by FETCH: the
\* fetched transcript is the extracted text.
ClaimedStages(kind) ==
    IF kind = "pdf" THEN <<"EXTRACT", "CHUNK", "EMBED", "INDEX">>
    ELSE <<"FETCH", "CHUNK", "EMBED", "INDEX">>

StageOrder ==
    \A p \in Procs :
        req[p].kind \in UploadKinds =>
            LET st == Stages(p)
                all == ClaimedStages(req[p].kind)
            IN  /\ Len(st) >= 1
                /\ IF Done(p)
                   THEN LET entered == SubSeq(st, 1, Len(st) - 1)
                        IN  /\ IsPrefix(entered, all)
                            /\ Len(entered) >= 1
                            /\ st[Len(st)] \in {"DONE", "FAILED"}
                            /\ st[Len(st)] = "DONE" => entered = all /\ IsSuccess(outcome[p])
                            /\ st[Len(st)] = "FAILED" => IsErrorEnvelope(outcome[p])
                   ELSE /\ IsPrefix(st, all)
                        /\ pc[p] # "idle"
                        /\ outcome[p].tag = "none"

\* C3 witness: a PDF upload fails in EMBED and never enters INDEX
FailedInEmbed ==
    \E p \in Procs :
        /\ Done(p) /\ req[p].kind = "pdf"
        /\ Stages(p) = <<"EXTRACT", "CHUNK", "EMBED", "FAILED">>

\* C4: the provider is called at most MAX_RETRIES times for any chunk, and embed_chunks
\* fails only when some chunk has failed MAX_RETRIES attempts in a row.
FailedIn(p, stage) ==
    /\ Done(p)
    /\ LET st == Stages(p)
       IN  Len(st) >= 2 /\ st[Len(st)] = "FAILED" /\ st[Len(st) - 1] = stage

BoundedRetries ==
    \A p \in Procs :
        req[p].kind \in UploadKinds =>
            /\ \A i \in 1..Len(loc[p].chunks) : Len(CallsFor(p, i)) <= MAX_RETRIES
            /\ FailedIn(p, "EMBED") =>
                  \E i \in 1..Len(loc[p].chunks) :
                      CallsFor(p, i) = [k \in 1..MAX_RETRIES |-> FALSE]

\* C4 witness: the second chunk is given up after MAX_RETRIES failed calls, the first
\* one having been embedded at its last attempt
GaveUpAfterMaxRetries ==
    \E p \in Procs :
        /\ FailedIn(p, "EMBED")
        /\ CallsFor(p, 1) = <<FALSE, FALSE, TRUE>>
        /\ CallsFor(p, 2) = <<FALSE, FALSE, FALSE>>

\* C5: after the k-th failed attempt on a chunk, k < MAX_RETRIES, embed_chunks sleeps
\* RETRY_DELAY * k and then calls the provider for that chunk again; k counts from the
\* chunk's first attempt; nothing is slept after the MAX_RETRIES-th failure.
FailuresUpTo(p, i, k) ==
    Cardinality({j \in 1..k : trace[p][j][1] = "embed" /\ trace[p][j][2] = i
                                /\ ~trace[p][j][3]})

LinearBackoff ==
    \A p \in Procs :
        LET tr == trace[p]
        IN  \A k \in 1..Len(tr) :
                /\ (tr[k][1] = "embed" /\ ~tr[k][3]) =>
                      LET i == tr[k][2]
                          n == FailuresUpTo(p, i, k)
                      IN  IF n < MAX_RETRIES
                          THEN /\ k < Len(tr)
                               /\ tr[k + 1][1] = "sleep"
                               /\ tr[k + 1][2] = i
                               /\ tr[k + 1][3] = RETRY_DELAY * n
                               /\ k + 2 <= Len(tr) =>
                                     tr[k + 2][1] = "embed" /\ tr[k + 2][2] = i
                          ELSE k < Len(tr) => tr[k + 1][1] # "sleep"
                /\ tr[k][1] = "sleep" =>
                      k > 1 /\ tr[k - 1][1] = "embed" /\ ~tr[k - 1][3]

\* C5 witness: the first chunk slept once, the second one twice, from RETRY_DELAY again
BackoffRestarted ==
    \E p \in Procs :
        /\ CallsFor(p, 1) = <<FALSE, TRUE>>
        /\ CallsFor(p, 2) = <<FALSE, FALSE, TRUE>>
        /\ SelectSeq(trace[p], LAMBDA e : e[1] = "sleep")
              = <<Sleep(1, RETRY_DELAY), Sleep(2, RETRY_DELAY), Sleep(2, 2 * RETRY_DELAY)>>

\* C6: when embed_chunks returns, its result has one vector per chunk and the i-th
\* vector is the provider's answer for the i-th chunk, retries or not.
EmbedReturned(p) ==
    /\ req[p].kind \in UploadKinds
    /\ \E k \in 1..Len(Stages(p)) - 1 :
          Stages(p)[k] = "EMBED" /\ Stages(p)[k + 1] # "FAILED"

EmbedOrderAligned ==
    \A p \in Procs :
        EmbedReturned(p) =>
            /\ Len(loc[p].embeddings) = Len(loc[p].chunks)
            /\ \A i \in 1..Len(loc[p].chunks) :
                  /\ loc[p].embeddings[i] = Embedding(loc[p].chunks[i])
                  /\ Len(CallsFor(p, i)) >= 1
                  /\ \A k \in 1..Len(CallsFor(p, i)) :
                        CallsFor(p, i)[k] <=> (k = Len(CallsFor(p, i)))

\* C6 witness: two chunks embedded, the first one at its second attempt
EmbedReturnedAfterRetry ==
    \E p \in Procs :
        /\ EmbedReturned(p)
        /\ Len(loc[p].chunks) = 2
        /\ CallsFor(p, 1) = <<FALSE, TRUE>>
        /\ loc[p].embeddings[1] # loc[p].embeddings[2]

\* C7: index_chunks called with lists of different lengths fails with a
\* ValidationError before any call to the vector store, and writes no record.
IndexChunksValidatesLengths ==
    \A p \in Procs :
        (req[p].kind = "index" /\ Len(loc[p].chunks) # Len(loc[p].embeddings)) =>
            /\ StoreCalls(p) = <<>>
            /\ store = before[p]
            /\ Done(p) => outcome[p].tag = "raise" /\ outcome[p].error = "ValidationError"

\* C8: on success index_chunks returns len(chunks) identifiers and has written
\* len(chunks) records, the i-th one holding chunk i, vector i, chunk_index i and
\* total_chunks len(chunks); the envelope's chunk_count is the number of point_ids.
Written(p, i) ==
    \E r \in store :
        /\ r.id = loc[p].point_ids[i]
        /\ r.vector = loc[p].embeddings[i]
        /\ r.payload.text = loc[p].chunks[i]
        /\ r.payload.chunk_index = i - 1
        /\ r.payload.total_chunks = Len(loc[p].chunks)

IndexRecordsAligned ==
    \A p \in Procs :
        (Done(p) /\ req[p].kind \in UploadKinds \cup {"index"}
                 /\ Stages(p)[Len(Stages(p))] = "DONE") =>
            /\ Len(loc[p].point_ids) = Len(loc[p].chunks)
            /\ Cardinality(store \ before[p]) = Len(loc[p].chunks)
            /\ \A i \in 1..Len(loc[p].chunks) : Written(p, i)
            /\ req[p].kind = "index" => outcome[p].value = loc[p].point_ids
            /\ req[p].kind \in UploadKinds =>
                  /\ outcome[p].value.point_ids = loc[p].point_ids
                  /\ outcome[p].value.chunk_count = Len(outcome[p].value.point_ids)

\* C9: a search for user U returns no record of another user: the hits of
\* search_documents and of VectorService.search, and the results made from them, are
\* records whose payload user_id is U.
SearchKinds == {"search", "vs_search"}

UserIsolation ==
    \A p \in Procs :
        req[p].kind \in SearchKinds =>
            /\ \A h \in loc[p].hits : h \in store /\ h.payload.user_id = req[p].user_id
            /\ Cardinality(loc[p].hits) <= req[p].limit
            /\ (Done(p) /\ req[p].kind = "search" /\ IsSuccess(outcome[p])) =>
                  /\ outcome[p].value.count = Cardinality(loc[p].hits)
                  /\ \A k \in 1..Len(outcome[p].value.results) :
                        \E h \in loc[p].hits : outcome[p].value.results[k] = SearchResult(h)
            /\ (Done(p) /\ req[p].kind = "vs_search") =>
                  \A k \in 1..Len(outcome[p].value) :
                      \E h \in loc[p].hits : outcome[p].value[k] = VectorService_result(h)

\* C9 witness: search_documents returns hits while the index holds another user's records
SearchAmongOthers ==
    \E p \in Procs :
        /\ Done(p) /\ req[p].kind = "search"
        /\ loc[p].hits # {}
        /\ outcome[p].value.count >= 1
        /\ \E r \in store : r.payload.user_id # req[p].user_id

\* C10: delete_by_library_item_id(d) removes every record whose library_item_id is d
\* and leaves every other record as it was, other documents of the same user included.
DeleteFrame ==
    \A p \in Procs :
        (Done(p) /\ req[p].kind = "delete" /\ IsSuccess(outcome[p])) =>
            /\ RecordsOf(store, req[p].library_item_id) = {}
            /\ store = before[p] \ RecordsOf(before[p], req[p].library_item_id)

\* C10 witness: a document is deleted while another document of its user is indexed
DeletedBesideSibling ==
    \E p \in Procs :
        /\ Done(p) /\ req[p].kind = "delete" /\ IsSuccess(outcome[p])
        /\ RecordsOf(before[p], req[p].library_item_id) # {}
        /\ \E r \in store :
              /\ "library_item_id" \in DOMAIN r.payload
              /\ r.payload.library_item_id # req[p].library_item_id
              /\ r.payload.user_id = Owner(req[p].library_item_id)

\* the store answered the request's call (it was reachable), whatever the answer
StoreAnswered(p) ==
    ~(outcome[p].tag = "return" /\ "error" \in DOMAIN outcome[p].value
        /\ outcome[p].value.error = StoreError)

\* C11: delete_document(d) on a reachable store returns success, and when the
\* index holds no record of d (d was never indexed, or was deleted by the call
\* just before) it removes nothing: the index is as it was.
IdempotentDeletion ==
    \A p \in Procs :
        (Done(p) /\ req[p].kind = "delete" /\ StoreAnswered(p)) =>
            /\ IsSuccess(outcome[p])
            /\ RecordsOf(store, req[p].library_item_id) = {}
            /\ RecordsOf(before[p], req[p].library_item_id) = {} => store = before[p]

\* the language groups request p asked the transcript provider for, in order
Fetched(p) ==
    LET ev == SelectSeq(trace[p], LAMBDA e : e[1] = "fetch")
    IN  [k \in 1..Len(ev) |-> language_attempts[ev[k][2]]]

\* the provider calls of the embedding stage that request p made
EmbedCalls(p) == SelectSeq(trace[p], LAMBDA e : e[1] = "embed")

\* the fetch stage of a YouTube upload is over, and it gave no transcript
NoTranscript(p) ==
    req[p].kind = "youtube" /\ pc[p] # "fetch" /\ loc[p].text = ""

\* C12: a YouTube upload whose fetch stage yields no transcript ends at once with
\* the error envelope that reports the missing transcript; the chunker, the
\* embedding provider and the vector store are never called for it.
NoTranscriptFailsFast ==
    \A p \in Procs :
        NoTranscript(p) =>
            /\ Done(p)
            /\ outcome[p] = Returned(ErrorEnvelope(TranscriptMissing))
            /\ Stages(p) = <<"FETCH", "FAILED">>
            /\ EmbedCalls(p) = <<>>
            /\ StoreCalls(p) = <<>>
            /\ store = before[p]

\* C12 witness: every language group of a video was tried, none gave a transcript
NoTranscriptSeen ==
    \E p \in Procs :
        /\ Done(p) /\ NoTranscript(p)
        /\ req[p].source_url = "https://youtu.be/vid"
        /\ Len(Fetched(p)) = 6

\* the position of the first event of trace t that is the entry of stage s, 0 if none
EnteredAt(t, s) ==
    IF \E k \in 1..Len(t) : t[k] = Stage(s)
    THEN CHOOSE k \in 1..Len(t) : t[k] = Stage(s) /\ \A j \in 1..(k - 1) : t[j] # Stage(s)
    ELSE 0

\* C13: the language groups are asked for in the order en, en-US, en-GB, es+en,
\* fr+en, de+en (one provider call per group when the URL has a video id); the first group that gives a transcript is the last one asked
\* for, its transcript is the text the pipeline goes on with, and no group is
\* asked for after it.
FallbackOrder ==
    \A p \in Procs :
        req[p].kind = "youtube" =>
            /\ IsPrefix(Fetched(p),
                        << <<"en">>, <<"en-US">>, <<"en-GB">>,
                           <<"es", "en">>, <<"fr", "en">>, <<"de", "en">> >>)
            /\ (pc[p] = "fetch" /\ extract_video_id(req[p].source_url) # <<>>) =>
                  Len(Fetched(p)) = loc[p].attempt - 1
            /\ loc[p].text # "" =>
                  /\ pc[p] # "fetch"
                  /\ Len(Fetched(p)) = loc[p].attempt
                  /\ EnteredAt(trace[p], "CHUNK") > 0
                  /\ \A k \in 1..Len(trace[p]) :
                        trace[p][k][1] = "fetch" => k < EnteredAt(trace[p], "CHUNK")

\* C13 witness: the third group is the first to give a transcript, and the run
\* went on to index it
FellBackToThirdGroup ==
    \E p \in Procs :
        /\ Done(p) /\ req[p].kind = "youtube" /\ IsSuccess(outcome[p])
        /\ Fetched(p) = << <<"en">>, <<"en-US">>, <<"en-GB">> >>
        /\ loc[p].text = "doc"

\* C14: for a URL with a video id whose video has transcripts disabled, the fetch
\* ends with no transcript after exactly 6 calls of the transcript provider, and
\* the caller gets a value, not an exception.
DisabledEverywhereSixCalls ==
    \A p \in Procs :
        (req[p].kind = "youtube" /\ TranscriptsOff(req[p].source_url)) =>
            /\ Len(Fetched(p)) <= 6
            /\ pc[p] # "fetch" =>
                  /\ Len(Fetched(p)) = 6
                  /\ loc[p].text = ""
                  /\ Done(p) /\ outcome[p].tag = "return"

\* C14 witness: the sixth call for the video with disabled transcripts has failed
DisabledEverywhereSeen ==
    \E p \in Procs :
        /\ Done(p) /\ req[p].kind = "youtube" /\ TranscriptsOff(req[p].source_url)
        /\ Len(Fetched(p)) = 6
        /\ loc[p].attempt = 6

\* the create_collection calls issued by the requests in progress
CreateCalls ==
    {p \in Procs : "create_collection" \in Range(StoreCalls(p))}

\* C15: over repeated and interleaved ensure_collection calls, create_collection
\* is issued at most once for the collection, and no caller gets an error
\* because the collection already exists.
EnsureCollectionOnce ==
    /\ Cardinality(CreateCalls) <= 1
    /\ \A p \in Procs :
          (Done(p) /\ req[p].kind = "index") => outcome[p] # Raised(CollectionExists)

\* the chunks (1-based) for which every one of MAX_RETRIES provider calls failed
ExhaustedChunks(p) ==
    {i \in 1..Len(loc[p].chunks) :
        /\ Len(CallsFor(p, i)) = MAX_RETRIES
        /\ \A k \in 1..MAX_RETRIES : ~CallsFor(p, i)[k]}

\* C16: when every attempt for chunk i has failed, the failure embed_chunks
\* raises (which the pipeline reports in its envelope) is an EmbeddingError that
\* names chunk i and carries the provider's last error.
EmbedFailureNamesChunk ==
    \A p \in Procs :
        (Done(p) /\ req[p].kind \in UploadKinds /\ ExhaustedChunks(p) # {}) =>
            \E i \in ExhaustedChunks(p) : \E index \in {i - 1, i} :
                outcome[p].value.error =
                    [type |-> "EmbeddingError", chunk_index |-> index,
                     cause |-> ProviderError]

\* request p's create_collection call was answered: the run created the collection
CreatedCollection(p) ==
    \E k \in 1..Len(StoreCalls(p)) :
        StoreCalls(p)[k] = "create_collection" /\ k < Len(StoreCalls(p))

\* request p is an upload that has ended with the error envelope
FailedRun(p) ==
    Done(p) /\ req[p].kind \in UploadKinds /\ IsErrorEnvelope(outcome[p])

\* C17, as stated: a pipeline run that ends with an error envelope leaves the
\* vector store exactly as it was, no step but the upsert changing store state.
FailedRunLeavesStore ==
    \A p \in Procs :
        FailedRun(p) => (store = before[p] /\ ~CreatedCollection(p))

\* C17, amended: a pipeline run that ends with an error envelope leaves the
\* records of the vector store exactly as they were: the only store calls of a
\* run are get_collections, create_collection and upsert, a failed run has no
\* acknowledged upsert, and all it can leave behind is the empty collection
\* that ensure_collection created.
FailedRunLeavesRecords ==
    \A p \in Procs :
        FailedRun(p) =>
            /\ store = before[p]
            /\ Range(StoreCalls(p)) \subseteq {"get_collections", "create_collection", "upsert"}
            /\ \A k \in 1..Len(trace[p]) :
                  trace[p][k] = StoreCall("upsert") =>
                      (k = Len(trace[p]) - 1 /\ trace[p][k + 1] = Stage("FAILED"))
            /\ CreatedCollection(p) => COLLECTION_NAME \in collections

\* C17 witness: the first upload creates the collection, then its upsert is refused
CreatedThenUpsertRefused ==
    \E p \in Procs :
        /\ FailedRun(p)
        /\ StoreCalls(p) = <<"get_collections", "create_collection", "upsert">>
        /\ Len(loc[p].points) > 0
        /\ store = {}

IndexingKinds == {"pdf", "youtube", "index"}

\* the upsert calls request p has issued
UpsertCalls(p) == SelectSeq(StoreCalls(p), LAMBDA op : op = "upsert")

\* request p ran index_chunks to its return statement
IndexReturned(p) ==
    /\ Done(p)
    /\ req[p].kind \in IndexingKinds
    /\ IF req[p].kind = "index" THEN outcome[p].tag = "return" ELSE IsSuccess(outcome[p])

\* the identifiers index_chunks returned to request p
ReturnedIds(p) ==
    IF req[p].kind = "index" THEN outcome[p].value ELSE outcome[p].value.point_ids

\* C18: an invocation of index_chunks issues at most one upsert; one that
\* returns has issued exactly one, as its last store call, carrying every record
\* it built, and the identifiers it returns are those of records the store
\* already holds.
SingleBatchedUpsert ==
    \A p \in Procs :
        req[p].kind \in IndexingKinds =>
            /\ Len(UpsertCalls(p)) <= 1
            /\ IndexReturned(p) =>
                  /\ Len(UpsertCalls(p)) = 1
                  /\ StoreCalls(p)[Len(StoreCalls(p))] = "upsert"
                  /\ Len(loc[p].points) = zip_length(loc[p].chunks, loc[p].embeddings)
                  /\ Range(loc[p].points) \subseteq store
                  /\ ReturnedIds(p) = [k \in 1..Len(loc[p].points) |-> loc[p].points[k].id]

\* C18 witness: a run returned the ids of a batch of two records, written beside
\* the records of an earlier run
BatchOfTwoReturned ==
    \E p \in Procs :
        /\ IndexReturned(p)
        /\ Len(ReturnedIds(p)) = 2
        /\ before[p] # {}
        /\ Cardinality(store) = Cardinality(before[p]) + 2

\* the identifiers of a set of records
Ids(records) == {r.id : r \in records}

\* C19: every identifier index_chunks generates differs from every identifier
\* generated before it (those of the same run included), and no step replaces a
\* record of the store: a step either removes records or adds records under
\* identifiers the store did not hold.
IdsNeverReused ==
    [][/\ \A p \in Procs :
            loc'[p].point_ids # loc[p].point_ids =>
                \A k \in 1..Len(loc'[p].point_ids) :
                    /\ loc'[p].point_ids[k] \notin 1..next_uuid
                    /\ \A j \in 1..(k - 1) : loc'[p].point_ids[j] # loc'[p].point_ids[k]
       /\ store' \subseteq store \/ store \subseteq store'
       /\ \A r \in store' \ store : r.id \notin Ids(store)]_vars

\* C19 witness: a run holds fresh identifiers for its upsert while the store has
\* records of earlier runs and some earlier identifier is no longer in the store
FreshIdsBesideOldOnes ==
    \E p \in Procs :
        /\ pc[p] = "upsert"
        /\ Len(loc[p].point_ids) > 0
        /\ store # {}
        /\ next_uuid > Cardinality(store) + Len(loc[p].point_ids)
        /\ Ids(store) \cap Range(loc[p].point_ids) = {}

\* request p called embed_chunks with the empty list
EmbedOfNothing(p) ==
    /\ req[p].kind \in UploadKinds
    /\ "EMBED" \in Range(Stages(p))
    /\ loc[p].chunks = <<>>

\* C20: embed_chunks([]) never stands at a provider call or a retry delay, makes
\* no provider call, and returns [].
EmbedNothing ==
    \A p \in Procs :
        EmbedOfNothing(p) =>
            /\ pc[p] \notin {"embed_while", "aembed_query", "sleep"}
            /\ EmbedCalls(p) = <<>>
            /\ loc[p].vectors = <<>>
            /\ pc[p] # "embed_loop" =>
                  (loc[p].embeddings = <<>> /\ "INDEX" \in Range(Stages(p)))

\* C20 witness: a PDF without text was chunked into nothing, embed_chunks([])
\* returned and the run went on to index_chunks
EmbeddedNothing ==
    \E p \in Procs :
        /\ EmbedOfNothing(p)
        /\ req[p].kind = "pdf"
        /\ "INDEX" \in Range(Stages(p))
        /\ loc[p].embeddings = <<>>

\* the chunks of a text laid end to end, each without the overlap it repeats
RECURSIVE Unsplit(_, _)
Unsplit(chunks, chunk_overlap) ==
    IF chunks = <<>> THEN <<>>
    ELSE IF Len(chunks) = 1 THEN chunks[1]
    ELSE SubSeq(chunks[1], 1, Len(chunks[1]) - chunk_overlap)
            \o Unsplit(Tail(chunks), chunk_overlap)

Failures(p, i) ==
    Len(SelectSeq(CallsFor(p, i), LAMBDA ok : ~ok))

\* C22: within one document the provider is called for chunk i+1 only after a
\* call for chunk i has succeeded, and the MAX_RETRIES-th failed call for a
\* chunk is the last provider call of the document.
SequentialEmbedding ==
    \A p \in Procs :
        req[p].kind \in UploadKinds =>
            LET calls == EmbedCalls(p)
            IN  \A k \in 1..Len(calls) :
                    /\ calls[k][2] > 1 =>
                          \E j \in 1..(k - 1) : calls[j] = EmbedCall(calls[k][2] - 1, TRUE)
                    /\ \A j \in 1..(k - 1) : calls[j][2] <= calls[k][2]
                    /\ (~calls[k][3]
                          /\ Cardinality({j \in 1..k : calls[j] = calls[k]}) = MAX_RETRIES)
                         => k = Len(calls)

\* C22 witness: the first of two chunks used up its retries, and the run has
\* ended without a provider call for the second
SecondChunkNeverTried ==
    \E p \in Procs :
        /\ Done(p) /\ req[p].kind \in UploadKinds
        /\ Len(loc[p].chunks) = 2
        /\ EmbedCalls(p) = <<EmbedCall(1, FALSE), EmbedCall(1, FALSE), EmbedCall(1, FALSE)>>

\* C23: when no chunk fails MAX_RETRIES times, the failed attempts are not
\* surfaced: once every chunk has been answered embed_chunks returns one vector
\* per chunk, that of the chunk's one successful call, and the run ends DONE
\* unless the indexing stage fails.
IntermediateFailuresHidden ==
    \A p \in Procs :
        (/\ req[p].kind \in UploadKinds
         /\ "EMBED" \in Range(Stages(p))
         /\ \A i \in 1..Len(loc[p].chunks) : Failures(p, i) < MAX_RETRIES) =>
            /\ ~FailedIn(p, "EMBED")
            /\ EmbedReturned(p) =>
                  /\ loc[p].embeddings = [i \in 1..Len(loc[p].chunks) |->
                                             Embedding(loc[p].chunks[i])]
                  /\ \A i \in 1..Len(loc[p].chunks) :
                        /\ Len(SelectSeq(CallsFor(p, i), LAMBDA ok : ok)) = 1
                        /\ CallsFor(p, i)[Len(CallsFor(p, i))]
            /\ Done(p) => (IsSuccess(outcome[p]) \/ FailedIn(p, "INDEX"))
            /\ (Done(p) /\ IsSuccess(outcome[p])) => Stages(p)[Len(Stages(p))] = "DONE"

\* C23 witness: each of two chunks failed MAX_RETRIES - 1 times before it was
\* embedded, and the run ended DONE
SucceededOnLastAttempts ==
    \E p \in Procs :
        /\ Done(p) /\ req[p].kind \in UploadKinds /\ IsSuccess(outcome[p])
        /\ Len(loc[p].chunks) = 2
        /\ \A i \in 1..2 : Failures(p, i) = MAX_RETRIES - 1
        /\ Stages(p)[Len(Stages(p))] = "DONE"

\* request p stays in the fetch stage and moves from language group a to the next
NextGroup(p) ==
    /\ pc'[p] = "fetch"
    /\ loc'[p].attempt = loc[p].attempt + 1
    /\ loc'[p].text = ""
    /\ outcome'[p] = NoOutcome

\* an attempt of request p fails, in one of the three ways fetch_transcript catches
AttemptFails(p) ==
    fetch_transcript_disabled(p) \/ fetch_transcript_not_found(p) \/ fetch_transcript_error(p)

\* C24: a language attempt that fails with TranscriptsDisabled, NoTranscriptFound
\* or any other exception, and is not the last, leaves the fallback running at
\* the next language group; an attempt that then gives a transcript ends the
\* fetch stage with that transcript as the text to be chunked.
FailedAttemptDoesNotAbort ==
    [][\A p \in Procs :
          /\ (AttemptFails(p) /\ loc[p].attempt < 6) => NextGroup(p)
          /\ \A t \in Texts \ {""} :
                fetch_transcript_ok(p, t) =>
                    /\ pc'[p] = "chunk"
                    /\ loc'[p].text = t
                    /\ outcome'[p] = NoOutcome]_vars

\* C24 witness: five attempts failed, the sixth group gave the transcript and
\* the upload was indexed
SixthGroupGaveTranscript ==
    \E p \in Procs :
        /\ Done(p) /\ req[p].kind = "youtube" /\ IsSuccess(outcome[p])
        /\ Len(Fetched(p)) = 6
        /\ loc[p].text = "doc"

\* C30: when the provider answers an attempt with the empty string, the fallback
\* goes on to the next language group as after a failure; when that was the last
\* group, the upload ends with the error envelope for the missing transcript,
\* with no chunker, embedding or store call made.
EmptyTranscriptIsFailure ==
    [][\A p \in Procs :
          fetch_transcript_ok(p, "") =>
              IF loc[p].attempt < 6
              THEN NextGroup(p)
              ELSE /\ pc'[p] = "done"
                   /\ outcome'[p] = Returned(ErrorEnvelope(TranscriptMissing))
                   /\ SelectSeq(trace'[p], LAMBDA e : e[1] # "fetch")
                         = <<Stage("FETCH"), Stage("FAILED")>>
                   /\ store' = before[p]]_vars

\* C30 witness: a video whose every language group was asked for has no usable
\* transcript, and the upload has ended at the fetch stage
EveryGroupEmptyOrAbsent ==
    \E p \in Procs :
        /\ Done(p) /\ req[p].kind = "youtube"
        /\ ~TranscriptsOff(req[p].source_url)
        /\ Len(Fetched(p)) = 6
        /\ outcome[p] = Returned(ErrorEnvelope(TranscriptMissing))
        /\ Stages(p) = <<"FETCH", "FAILED">>

\* the records VectorService.index_pdf wrote for library item d
IndexedByVectorService(records, d) ==
    {r \in records :
        /\ Type(d) = "pdf"
        /\ "file_path" \in DOMAIN r.payload
        /\ r.payload.file_path = FilePath(d)}

ReprocessingAccumulates ==
    \A p \in Procs :
        (Done(p) /\ req[p].kind \in UploadKinds /\ IsSuccess(outcome[p])) =>
            LET d == req[p].library_item_id
                earlier == RecordsOf(before[p], d)
                added == Range(loc[p].points)
            IN  /\ RecordsOf(store, d) = earlier \cup added
                /\ Ids(earlier) \cap Ids(added) = {}
                /\ Cardinality(RecordsOf(store, d))
                      = Cardinality(earlier) + Len(loc[p].chunks)
                /\ \A r \in earlier :
                      r.payload.chunk_index < Len(loc[p].chunks) =>
                          \E n \in added :
                              /\ n.payload.chunk_index = r.payload.chunk_index
                              /\ n.id # r.id
                              /\ {r, n} \subseteq store

\* C29 witness: the second run of an item, two chunks after two chunks, has
\* ended DONE and the item has four records
TwoRunsFourRecords ==
    \E p \in Procs :
        /\ Done(p) /\ req[p].kind \in UploadKinds /\ IsSuccess(outcome[p])
        /\ Len(loc[p].chunks) = 2
        /\ Cardinality(RecordsOf(before[p], req[p].library_item_id)) = 2
        /\ Cardinality(RecordsOf(store, req[p].library_item_id)) = 4

\* the transcript provider calls request p made
FetchCalls(p) == SelectSeq(trace[p], LAMBDA e : e[1] = "fetch")

\* C26: an upload makes at most MAX_RETRIES provider calls per chunk in
\* embed_chunks and at most 6 transcript provider calls in
\* fetch_transcript_with_fallback, and, every call being answered, it ends: its
\* last stage is DONE or FAILED.
UploadsTerminate ==
    /\ [](\A p \in Procs :
            req[p].kind \in UploadKinds =>
                /\ Len(EmbedCalls(p)) <= MAX_RETRIES * Len(loc[p].chunks)
                /\ Len(FetchCalls(p)) <= 6)
    /\ \A p \in Procs :
          (req[p].kind \in UploadKinds) ~>
              (/\ Done(p) /\ req[p].kind \in UploadKinds
               /\ Stages(p)[Len(Stages(p))] \in {"DONE", "FAILED"})

\* C26 witness: an upload that used every call it may make, 6 to the transcript
\* provider and MAX_RETRIES for each of two chunks, has ended
LongestUploadEnded ==
    \E p \in Procs :
        /\ Done(p) /\ req[p].kind = "youtube"
        /\ Len(FetchCalls(p)) = 6
        /\ Len(loc[p].chunks) = 2
        /\ Len(EmbedCalls(p)) = MAX_RETRIES * 2

\* ---------------------------------------------------------------- concurrent uploads
\* the document each task uploads: two documents of two users
ItemOf(p) == IF p = 1 THEN 1 ELSE 3

\* one step of one PDF pipeline; each await is a point where the other task may run
PipelineStep(p) ==
    \/ process_pdf_upload(p, ItemOf(p))
    \/ \E t \in Texts : extract_text_from_pdf_ok(p, t)
    \/ extract_text_from_pdf_raise(p)
    \/ \E n \in 0..MaxChunks : chunk_text_ok(p, n)
    \/ chunk_text_raise(p)
    \/ embed_chunks_for(p)
    \/ embed_chunks_while(p)
    \/ aembed_query_ok(p)
    \/ aembed_query_raise(p)
    \/ sleep_returns(p)
    \/ get_collections_ok(p)
    \/ get_collections_raise(p)
    \/ create_collection_ok(p)
    \/ create_collection_raise(p)
    \/ create_collection_conflict(p)
    \/ upsert_ok(p)
    \/ upsert_raise(p)

\* two uploads of different documents, interleaved on one agent
NextPipelines == \E p \in Procs : PipelineStep(p)

SpecPipelines == Init /\ [][NextPipelines]_vars

\* the upload of task p has ended
Ended(p) == Done(p) /\ req[p].kind = "pdf"

\* the upload of task p ended because of what the other upload did: its
\* create_collection was refused, the other having created the collection
FailedByTheOther(p) ==
    /\ Ended(p)
    /\ IsErrorEnvelope(outcome[p])
    /\ outcome[p].value.error = CollectionExists

\* C25: two uploads of different library_item_ids, interleaved on the same
\* agent: each run's outcome is the one it has alone (it fails only when one of
\* its own calls fails, and a successful run has written its records with its
\* own metadata), and the final index is the union of the records of the
\* successful runs.
PipelinesIndependent ==
    /\ \A p \in Procs : ~FailedByTheOther(p)
    /\ \A p \in Procs :
          (Ended(p) /\ IsSuccess(outcome[p])) =>
              /\ Len(outcome[p].value.point_ids) = Len(loc[p].chunks)
              /\ RecordsOf(store, ItemOf(p)) = Range(loc[p].points)
              /\ \A i \in 1..Len(loc[p].chunks) : Written(p, i)
    /\ (\A p \in Procs : Ended(p)) =>
          store = UNION {Range(loc[p].points) : p \in {q \in Procs : IsSuccess(outcome[q])}}

\* ---------------------------------------------------------------- delete beside an upload
\* the document that is uploaded and deleted
RacedItem == 1

\* one step of the upload of the document; no other task creates the collection
RacedUploadStep(p) ==
    \/ process_pdf_upload(p, RacedItem)
    \/ \E t \in Texts : extract_text_from_pdf_ok(p, t)
    \/ extract_text_from_pdf_raise(p)
    \/ \E n \in 0..MaxChunks : chunk_text_ok(p, n)
    \/ chunk_text_raise(p)
    \/ embed_chunks_for(p)
    \/ embed_chunks_while(p)
    \/ aembed_query_ok(p)
    \/ aembed_query_raise(p)
    \/ sleep_returns(p)
    \/ get_collections_ok(p)
    \/ get_collections_raise(p)
    \/ create_collection_ok(p)
    \/ create_collection_raise(p)
    \/ upsert_ok(p)
    \/ upsert_raise(p)

\* one step of the deletion of the document
RacedDeleteStep(p) ==
    \/ delete_document(p, RacedItem)
    \/ delete_ok(p)
    \/ delete_raise(p)
    \/ delete_collection_missing(p)

\* task 1 uploads the document while task 2 deletes it; each await is a point
\* where the other task may run
NextDeleteRace == RacedUploadStep(1) \/ RacedDeleteStep(2)

SpecDeleteRace == Init /\ [][NextDeleteRace]_vars

\* delete_document has returned success to task p
DeleteReturnedSuccess(p) ==
    Done(p) /\ req[p].kind = "delete" /\ IsSuccess(outcome[p])

\* C28: once delete_document(d) has returned success and the upload of d has
\* finished, the index holds no record whose library_item_id is d, however the
\* delete and the upload interleave.
DeleteWinsOverUpload ==
    (DeleteReturnedSuccess(2) /\ Ended(1)) => RecordsOf(store, RacedItem) = {}

\* request p is a YouTube upload whose URL holds no video id
Unparseable(p) ==
    req[p].kind = "youtube" /\ extract_video_id(req[p].source_url) = <<>>

\* C31: for a URL from which no video id can be extracted, the transcript
\* provider is never called: each of the 6 language attempts returns None before
\* the provider call, fetch_transcript_with_fallback returns None, and
\* process_youtube_upload returns the error envelope.
UnparseableUrlNeverAsked ==
    \A p \in Procs :
        Unparseable(p) =>
            /\ FetchCalls(p) = <<>>
            /\ pc[p] \in {"fetch", "done"}
            /\ loc[p].attempt \in 1..Len(language_attempts)
            /\ Done(p) =>
                  /\ loc[p].attempt = 6
                  /\ IsErrorEnvelope(outcome[p])
                  /\ outcome[p] = Returned(ErrorEnvelope(TranscriptMissing))
                  /\ Stages(p) = <<"FETCH", "FAILED">>
                  /\ StoreCalls(p) = <<>>

\* C31 witness: the sixth attempt on the unparseable URL has returned None and
\* the upload has ended
UnparseableUrlGaveUp ==
    \E p \in Procs :
        /\ Done(p) /\ Unparseable(p)
        /\ req[p].source_url = "not-a-video-url"
        /\ loc[p].attempt = 6
        /\ trace[p] = <<Stage("FETCH"), Stage("FAILED")>>

\* request p called index_chunks, and ensure_collection raised in it: the last
\* store call of the run is get_collections or create_collection, and it failed
EnsureCollectionFailed(p) ==
    /\ Done(p)
    /\ req[p].kind \in IndexingKinds
    /\ Stages(p)[Len(Stages(p))] = "FAILED"
    /\ StoreCalls(p) # <<>>
    /\ StoreCalls(p)[Len(StoreCalls(p))] \in {"get_collections", "create_collection"}

\* C32: if ensure_collection fails inside index_chunks (get_collections or
\* create_collection raises), no point is built and no upsert is issued,
\* index_chunks raises the store's error, and the pipeline returns the error
\* envelope with no point_ids.
EnsureCollectionFailureStops ==
    \A p \in Procs :
        EnsureCollectionFailed(p) =>
            /\ UpsertCalls(p) = <<>>
            /\ loc[p].points = <<>>
            /\ loc[p].point_ids = <<>>
            /\ store = before[p]
            /\ IF req[p].kind = "index"
               THEN outcome[p].tag = "raise" /\ outcome[p].error.type = "StoreError"
               ELSE /\ IsErrorEnvelope(outcome[p])
                    /\ outcome[p].value.error.type = "StoreError"
                    /\ "point_ids" \notin DOMAIN outcome[p].value

\* C32 witness: a PDF of two chunks was embedded, get_collections answered, and
\* create_collection raised
CreateCollectionRaisedInUpload ==
    \E p \in Procs :
        /\ EnsureCollectionFailed(p)
        /\ req[p].kind = "pdf"
        /\ Len(loc[p].embeddings) = 2
        /\ StoreCalls(p) = <<"get_collections", "create_collection">>
        /\ IsErrorEnvelope(outcome[p])

\* C33: when the chunker yields zero chunks (empty extracted text), the pipeline
\* still runs the INDEX stage: it calls ensure_collection and, that succeeding,
\* issues one upsert with an empty point list; if the store accepts it the
\* envelope is success with point_ids = [] and chunk_count = 0, and the index is
\* unchanged.
EmptyDocumentStillIndexed ==
    \A p \in Procs :
        EmbedOfNothing(p) =>
            /\ loc[p].text = ""
            /\ pc[p] = "upsert" => loc[p].points = <<>>
            /\ store = before[p]
            /\ Done(p) =>
                  /\ "INDEX" \in Range(Stages(p))
                  /\ StoreCalls(p) # <<>> /\ StoreCalls(p)[1] = "get_collections"
                  /\ Len(UpsertCalls(p)) <= 1
                  /\ IsSuccess(outcome[p]) \/ IsErrorEnvelope(outcome[p])
                  /\ IsErrorEnvelope(outcome[p]) => outcome[p].value.error.type = "StoreError"
                  /\ IsSuccess(outcome[p]) =>
                        /\ UpsertCalls(p) = <<"upsert">>
                        /\ loc[p].points = <<>>
                        /\ outcome[p].value.point_ids = <<>>
                        /\ outcome[p].value.chunk_count = 0

\* C33 witness: a PDF without text was uploaded beside the records of an earlier
\* upload; the store accepted the upsert of no point and the upload succeeded
EmptyDocumentAccepted ==
    \E p \in Procs :
        /\ Done(p) /\ EmbedOfNothing(p)
        /\ req[p].kind = "pdf"
        /\ IsSuccess(outcome[p])
        /\ StoreCalls(p) = <<"get_collections", "upsert">>
        /\ store = before[p] /\ store # {}

====
